---- MODULE Spec2Model ----
(***************************************************************************)
(* Model of the phone-OTP authentication core of BurningSawals:            *)
(* the OTP service (generateAndSendOTP, verifyOTP, cleanupExpiredOTPs),    *)
(* the phone/OTP format helpers, the auth routes, the rate-limiter         *)
(* configuration and the sign-then-encrypt token utilities.                *)
(*                                                                         *)
(* Strings are sequences of one-character strings, so that the regular     *)
(* expressions of the code (\D, ^\d{6}$) are computed and not assumed.     *)
(* Time is counted in minutes and the clock is observed every TickMinutes. *)
(* created_at has a finer resolution than the model clock: among records   *)
(* created in the same minute the one inserted later (larger otp_id) has   *)
(* the later created_at.                                                   *)
(* The audit column updated_at is not modelled.                            *)
(***************************************************************************)
EXTENDS Integers, Sequences, FiniteSets, TLC

\* ------------------------------------------------------------------ bounds
MaxNow == 15
MaxOtpId == 2
TickMinutes == 5
MaxRequests == 6
MaxBurst == 11
MaxFaultRequests == 4
MaxRaceCalls == 6
MaxMonitorVerifies == 2
MaxRollbacks == 1

\* ------------------------------------------------------- program constants
OtpTtlMinutes == 10
MaxAttempts == 5
OtpLength == 6
PhoneDigits == 10
OtpRangeLow == 100000
OtpRangeSpan == 900000
TokenTtlMinutes == 10080
OtpRateLimitMax == 3
OtpRateLimitWindow == 15
VerifyRateLimitMax == 5
VerifyRateLimitWindow == 10
OtpHourlyCap == 10
HourMinutes == 60
DayMinutes == 1440
SuspiciousAttempts == 5
SuspiciousFailedRecords == 3

NULL == -1

\* ----------------------------------------------------------------- strings
Digits == {"0", "1", "2", "3", "4", "5", "6", "7", "8", "9"}

DigitChar == <<"0", "1", "2", "3", "4", "5", "6", "7", "8", "9">>

IsDigit(c) == c \in Digits

\* String.prototype.replace(/\D/g, "")
StripNonDigits(s) == SelectSeq(s, IsDigit)

\* Number.prototype.toString() of a non-negative integer
RECURSIVE NumToString(_)
NumToString(n) ==
    IF n < 10 THEN <<DigitChar[n + 1]>>
    ELSE Append(NumToString(n \div 10), DigitChar[(n % 10) + 1])

\* ------------------------------------------------------ phoneValidation.ts
ValidPrefixes == {"6", "7", "8", "9"}

\* the validation without the prefix check
isValidIndianPhoneNumber_AnyPrefix(phoneNumber) ==
    Len(StripNonDigits(phoneNumber)) = PhoneDigits

isValidIndianPhoneNumber(phoneNumber) ==
    LET cleaned == StripNonDigits(phoneNumber)
    IN  IF Len(cleaned) # PhoneDigits THEN FALSE
        ELSE cleaned[1] \in ValidPrefixes

\* normalizePhoneNumber: exported "for storage", called nowhere
normalizePhoneNumber(phoneNumber) ==
    LET cleaned == StripNonDigits(phoneNumber)
    IN  IF Len(cleaned) = 12 /\ SubSeq(cleaned, 1, 2) = <<"9", "1">>
        THEN SubSeq(cleaned, 3, Len(cleaned))
        ELSE IF Len(cleaned) = 11 /\ cleaned[1] = "0"
        THEN SubSeq(cleaned, 2, Len(cleaned))
        ELSE cleaned

\* Math.floor(100000 + Math.random() * 900000).toString(); r stands for
\* Math.floor(Math.random() * 900000), a value of 0 .. 899999
generateOTP(r) == NumToString(OtpRangeLow + r)

\* String.prototype.padStart(length, "0")
RECURSIVE padStart(_, _)
padStart(str, length) ==
    IF Len(str) >= length THEN str ELSE padStart(<<"0">> \o str, length)

\* utils/otpGenerator.ts, imported nowhere: r stands for
\* Math.floor(Math.random() * Math.pow(10, length))
generateOtp(r, length) == padStart(NumToString(r), length)

isValidOTP(otp) == Len(otp) = OtpLength /\ \A i \in 1..Len(otp) : IsDigit(otp[i])

\* ---------------------------------------------------------- otp.service.ts
\* pbkdf2Sync(otp, salt, 10000, 64, "sha512"): a digest determined by the
\* code and the salt, taken to be collision free
hashOTP(otp, salt) == [digest_of |-> otp, keyed_by |-> salt]

\* crypto.randomBytes(16): a value no other call returns; n numbers the call
generateSalt(n) == [random_bytes |-> n]

\* SMS environment of one sendOTP call: no API key, provider accepted,
\* provider rejected, request error, or a failure outside the inner try
SmsOutcomes == {"sms_not_configured", "sms_accepted", "sms_api_error",
                "sms_network_error", "send_internal_error"}

sendOTP(sms) == IF sms = "send_internal_error" THEN FALSE ELSE TRUE

\* ------------------------------------------------------------------ inputs
PhoneA == <<"9", "8", "7", "6", "5", "4", "3", "2", "1", "0">>
PhoneAFormatted == <<"9", "8", "7", "6", "5", "-", "4", "3", "2", "1", "0">>
PhoneBadPrefix == <<"1", "2", "3", "4", "5", "6", "7", "8", "9", "0">>
PhoneShort == <<"9", "8", "7">>

PhoneInputs == {PhoneA, PhoneAFormatted, PhoneBadPrefix, PhoneShort}

\* values of Math.floor(Math.random() * 900000)
RandomDraws == {r \in {23456, 554321} : r < OtpRangeSpan}

OtpInputs == {generateOTP(r) : r \in RandomDraws}
                 \cup {<<"0", "0", "0", "0", "0", "0">>, <<"1", "2", "3", "4", "5">>}

\* user_name: absent, or the name a client supplies
NoName == <<>>
TestUser == <<"T", "U">>
NameInputs == {NoName, TestUser}

\* the inputs of the HTTP specification
ClientIps == {"10.0.0.1"}
HttpPhones == {PhoneA, PhoneBadPrefix}
HttpDraws == {23456}
HttpOtps == {generateOTP(r) : r \in HttpDraws}
                \cup {<<"0", "0", "0", "0", "0", "0">>, <<"1", "2", "3", "4", "5">>}

\* ------------------------------------------------------------------- state
\* now: wall clock; otps, users: the tables; nextOtpId, nextUserId: the
\* auto-increment counters; last: what the most recent service call returned;
\* resp: the most recent response of an auth route; auth: the outcome of the
\* most recent requireAuth; reached: per rate-limit key, the requests that got
\* through to the Issuer / Verifier in the current window; requests: HTTP
\* requests served so far
VARIABLES now, otps, users, nextOtpId, nextUserId, last,
          resp, auth, reached, requests, calls, failedCompares, issuedAt

vars == <<now, otps, users, nextOtpId, nextUserId, last,
          resp, auth, reached, requests, calls, failedCompares, issuedAt>>

\* calls: per caller, the verifyOTP call it has in flight between two
\* awaits; failedCompares: per otp_id, the hash comparisons that failed;
\* issuedAt: the phone and time of every OTP issued while the monitoring
\* heuristic is observed, in order
callVars == <<calls, failedCompares, issuedAt>>

httpVars == <<resp, auth, reached, requests, callVars>>

NoRecord == [otp_id |-> 0]

\* OTPResult / VerifyOTPResult, tagged with the function that returned it
Result(op, success, message, otpId, userId, isNewUser) ==
    [op |-> op, success |-> success, message |-> message, otpId |-> otpId,
     userId |-> userId, isNewUser |-> isNewUser]

\* no result value
NoResult == Result("none", FALSE, "", 0, 0, FALSE)

\* the column default of otps.created_at: the insertion time (the schema is
\* not among the sources)
createdAtDefault(t) == t

\* the row with the expiry missing the 10 minutes
createOtp_NoTtl(id, phoneNumber, otp, salt, t) ==
    [otp_id |-> id,
     phone_number |-> phoneNumber,
     otp_hash |-> hashOTP(otp, salt),
     salt |-> salt,
     created_at |-> createdAtDefault(t),
     expires_at |-> t,
     attempts |-> 0,
     max_attempts |-> MaxAttempts,
     consumed_at |-> NULL]

\* prisma.otps.create: the row written by generateAndSendOTP
createOtp(id, phoneNumber, otp, salt, t) ==
    [otp_id |-> id,
     phone_number |-> phoneNumber,
     otp_hash |-> hashOTP(otp, salt),
     salt |-> salt,
     created_at |-> createdAtDefault(t),
     expires_at |-> t + OtpTtlMinutes,
     attempts |-> 0,
     max_attempts |-> MaxAttempts,
     consumed_at |-> NULL]

\* the rollback that deletes nothing
deleteOtp_Nothing(os, id) == os

\* prisma.otps.delete({ where: { otp_id } })
deleteOtp(os, id) == {r \in os : r.otp_id # id}

\* orderBy created_at desc (insertion order within one minute)
CreatedLater(a, b) ==
    \/ a.created_at > b.created_at
    \/ a.created_at = b.created_at /\ a.otp_id >= b.otp_id

\* the lookup ordered by created_at ascending
findFirstOtp_Oldest(os, phoneNumber, t) ==
    LET cand == {r \in os : /\ r.phone_number = phoneNumber
                            /\ r.expires_at > t
                            /\ r.consumed_at = NULL}
    IN  IF cand = {} THEN NoRecord
        ELSE CHOOSE r \in cand : \A q \in cand : CreatedLater(q, r)

\* the lookup without the consumed_at filter
findFirstOtp_IgnoresConsumed(os, phoneNumber, t) ==
    LET cand == {r \in os : /\ r.phone_number = phoneNumber
                            /\ r.expires_at > t}
    IN  IF cand = {} THEN NoRecord
        ELSE CHOOSE r \in cand : \A q \in cand : CreatedLater(r, q)

\* prisma.otps.findFirst of verifyOTP
findFirstOtp(os, phoneNumber, t) ==
    LET cand == {r \in os : /\ r.phone_number = phoneNumber
                            /\ r.expires_at > t
                            /\ r.consumed_at = NULL}
    IN  IF cand = {} THEN NoRecord
        ELSE CHOOSE r \in cand : \A q \in cand : CreatedLater(r, q)

\* no budget check at all
attemptsExceeded_Never(rec) == FALSE

\* the budget check that lets one comparison too many through
attemptsExceeded_OffByOne(rec) == rec.attempts > rec.max_attempts

\* otpRecord.attempts >= otpRecord.max_attempts
attemptsExceeded(rec) == rec.attempts >= rec.max_attempts

\* the update keyed by the phone number, not by otp_id
incrementAttempts_WholePhone(os, rec) ==
    {IF r.phone_number = rec.phone_number
     THEN [r EXCEPT !.attempts = rec.attempts + 1]
     ELSE r : r \in os}

\* prisma.otps.update: attempts = otpRecord.attempts + 1
incrementAttempts(os, rec) ==
    {IF r.otp_id = rec.otp_id THEN [r EXCEPT !.attempts = rec.attempts + 1]
     ELSE r : r \in os}

\* the update that leaves consumed_at null
markConsumed_Nothing(os, rec, t) == os

\* prisma.otps.update: consumed_at = new Date()
markConsumed(os, rec, t) ==
    {IF r.otp_id = rec.otp_id THEN [r EXCEPT !.consumed_at = t]
     ELSE r : r \in os}

\* the lookup that never finds the identity
findUser_Never(us, phoneNumber) == [user_id |-> 0]

\* prisma.users.findUnique({ where: { phone_number } })
findUser(us, phoneNumber) ==
    IF \E u \in us : u.phone_number = phoneNumber
    THEN CHOOSE u \in us : u.phone_number = phoneNumber
    ELSE [user_id |-> 0]

\* userName || `User_${phoneNumber}`
defaultUserName(userName, phoneNumber) ==
    IF userName # NoName THEN userName
    ELSE <<"U", "s", "e", "r", "_">> \o phoneNumber

\* prisma.users.create
createUser(id, phoneNumber, userName) ==
    [user_id |-> id,
     phone_number |-> phoneNumber,
     user_name |-> defaultUserName(userName, phoneNumber),
     auth_provider |-> "phone",
     is_phone_verified |-> TRUE,
     last_login_at |-> NULL]

\* prisma.users.update
updateUser(us, user, t) ==
    {IF u.user_id = user.user_id
     THEN [u EXCEPT !.is_phone_verified = TRUE, !.last_login_at = t]
     ELSE u : u \in us}

\* ---------------------------------------------------------------- tokens.ts
JwtSigningSecret == "JWT_SIGNING_SECRET"
EncKeyPair == "JWT_ENC_JWK"

NoToken == [kind |-> "none"]
GarbageToken == [kind |-> "garbage"]

\* new SignJWT(payload) ... setIssuedAt().setExpirationTime("7d")
\*   .setIssuer("your-api").setAudience("your-web").sign(secret):
\* the setters overwrite the claims of the payload
makeSignedJwt(payload, t) ==
    [kind |-> "jws",
     header |-> [alg |-> "HS256", typ |-> "JWT"],
     payload |-> [payload EXCEPT !.iat = t,
                                 !.exp = t + TokenTtlMinutes,
                                 !.iss = "your-api",
                                 !.aud = "your-web"],
     signed_with |-> JwtSigningSecret]

\* new CompactEncrypt(jws).setProtectedHeader(...).encrypt(publicKey)
encryptJwt(jws) ==
    [kind |-> "jwe",
     header |-> [alg |-> "RSA-OAEP-256", enc |-> "A256GCM",
                 kid |-> "key-2025-08", typ |-> "JWE"],
     encrypted_for |-> EncKeyPair,
     plaintext |-> jws]

Rejected(why) == [ok |-> FALSE, error |-> why]

\* compactDecrypt(jwe, privateKey), then jwtVerify(jws, secret,
\*   { issuer: "burning-sawals-api", audience: "burning-sawals" });
\* a thrown error is the value Rejected(..)
decryptAndVerify(jwe, t) ==
    IF jwe.kind # "jwe" THEN Rejected("JWEInvalid")
    ELSE IF jwe.encrypted_for # EncKeyPair THEN Rejected("JWEDecryptionFailed")
    ELSE LET jws == jwe.plaintext
         IN  IF jws.kind # "jws" THEN Rejected("JWSInvalid")
             ELSE IF jws.signed_with # JwtSigningSecret
             THEN Rejected("JWSSignatureVerificationFailed")
             ELSE IF jws.payload.iss # "burning-sawals-api"
             THEN Rejected("JWTClaimValidationFailed iss")
             ELSE IF jws.payload.aud # "burning-sawals"
             THEN Rejected("JWTClaimValidationFailed aud")
             ELSE IF jws.payload.exp <= t THEN Rejected("JWTExpired")
             ELSE [ok |-> TRUE, payload |-> jws.payload]

\* ------------------------------------------------------ auth.middleware.ts
NoClaims == [sub |-> <<>>]

\* the gate that reports the error it caught
requireAuth_LeaksReason(jwe, t) ==
    IF jwe = NoToken
    THEN [status |-> 401, error |-> "Missing token", user |-> NoClaims,
          next |-> FALSE]
    ELSE LET claims == decryptAndVerify(jwe, t)
         IN  IF claims.ok
             THEN [status |-> 200, error |-> "", user |-> claims.payload,
                   next |-> TRUE]
             ELSE [status |-> 401, error |-> claims.error,
                   user |-> NoClaims, next |-> FALSE]

requireAuth(jwe, t) ==
    IF jwe = NoToken
    THEN [status |-> 401, error |-> "Missing token", user |-> NoClaims,
          next |-> FALSE]
    ELSE LET claims == decryptAndVerify(jwe, t)
         IN  IF claims.ok
             THEN [status |-> 200, error |-> "", user |-> claims.payload,
                   next |-> TRUE]
             ELSE [status |-> 401, error |-> "Invalid or expired token",
                   user |-> NoClaims, next |-> FALSE]

\* -------------------------------------------------- phoneAuth.validator.ts
phoneNumberSchema(phone) ==
    /\ Len(phone) >= 1
    /\ LET cleaned == StripNonDigits(phone)
       IN  Len(cleaned) = PhoneDigits /\ cleaned[1] \in ValidPrefixes

otpSchema(otp) == Len(otp) = OtpLength /\ \A i \in 1..Len(otp) : IsDigit(otp[i])

\* user_name is optional; when present it has 1 to 200 characters
userNameSchema(name) == name = NoName \/ (Len(name) >= 1 /\ Len(name) <= 200)

sendOTPBody(phone) == phoneNumberSchema(phone)

verifyOTPBody(phone, otp, name) ==
    phoneNumberSchema(phone) /\ otpSchema(otp) /\ userNameSchema(name)

phoneLoginBody(phone, otp) == phoneNumberSchema(phone) /\ otpSchema(otp)

\* ------------------------------------------------------------ rateLimiter.ts
\* keyGenerator of otpRateLimit and verifyOtpRateLimit: `${ip}-${phone}`
rateLimitKey(ip, phone) == <<ip, phone>>

NoWindow == [key |-> <<>>, since |-> 0, count |-> 0]

\* the requests of one key that reached a service function within one window
Reach(w, key, t, window) ==
    IF w.key = key /\ t < w.since + window
    THEN [w EXCEPT !.count = @ + 1]
    ELSE [key |-> key, since |-> t, count |-> 1]

\* ------------------------------------------------------------ auth.routes.ts
NoPayload == [sub |-> <<>>, phone_number |-> <<>>, iat |-> 0, exp |-> 0,
              iss |-> "", aud |-> ""]

Response(route, status, message, token, payload) ==
    [route |-> route, status |-> status, message |-> message,
     token |-> token, payload |-> payload]

\* the payload object the verify-otp and login handlers build
tokenPayload(userId, phone, t) ==
    [sub |-> NumToString(userId),
     phone_number |-> phone,
     iat |-> t,
     exp |-> t + TokenTtlMinutes,
     iss |-> "burning-sawals-api",
     aud |-> "burning-sawals"]

\* the clients that may have a verifyOTP call in flight at the same time
Callers == {"caller1", "caller2"}

\* no call in flight, none finished
IdleCall == [pc |-> "idle", phone |-> <<>>, otpRecord |-> NoRecord,
             user |-> [user_id |-> 0], result |-> NoResult]

Init ==
    /\ resp = Response("none", 0, "", NoToken, NoPayload)
    /\ auth = [token |-> NoToken, status |-> 0, error |-> "",
               user |-> NoClaims, next |-> FALSE]
    /\ reached = [send |-> NoWindow, verify |-> NoWindow]
    /\ requests = 0
    /\ now = 0
    /\ otps = {}
    /\ users = {}
    /\ nextOtpId = 1
    /\ nextUserId = 1
    /\ last = Result("none", FALSE, "", 0, 0, FALSE)
    /\ calls = [c \in Callers |-> IdleCall]
    /\ failedCompares = [i \in {} |-> 0]
    /\ issuedAt = <<>>

\* ------------------------------------------------------ generateAndSendOTP
\* The value the call returns and the store it leaves, for the store os, the
\* next auto-increment id, the random draw r and the SMS outcome.
generateAndSendOTPOutcome(os, id, phoneNumber, r, sms, t) ==
    IF ~isValidIndianPhoneNumber(phoneNumber)
    THEN [otps |-> os, nextOtpId |-> id,
          result |-> Result("generateAndSendOTP", FALSE,
                            "Invalid phone number format", 0, 0, FALSE)]
    ELSE LET otp == generateOTP(r)
             salt == generateSalt(id)
             otpRecord == createOtp(id, phoneNumber, otp, salt, t)
             stored == os \cup {otpRecord}
         IN  IF ~sendOTP(sms)
             THEN [otps |-> deleteOtp(stored, otpRecord.otp_id),
                   nextOtpId |-> id + 1,
                   result |-> Result("generateAndSendOTP", FALSE, "Failed to send OTP", 0, 0, FALSE)]
             ELSE [otps |-> stored,
                   nextOtpId |-> id + 1,
                   result |-> Result("generateAndSendOTP", TRUE, "OTP sent successfully",
                                     otpRecord.otp_id, 0, FALSE)]

\* --------------------------------------------------------------- verifyOTP
verifyOTPOutcome(os, us, uid, phoneNumber, otp, userName, t) ==
    LET fail(msg, os2) ==
            [otps |-> os2, users |-> us, nextUserId |-> uid,
             result |-> Result("verifyOTP", FALSE, msg,
                               0, 0, FALSE)]
        otpRecord == findFirstOtp(os, phoneNumber, t)
    IN  IF ~isValidOTP(otp) THEN fail("Invalid OTP format", os)
        ELSE IF otpRecord = NoRecord
        THEN fail("Invalid or expired OTP", os)
        ELSE IF attemptsExceeded(otpRecord)
        THEN fail("Maximum OTP attempts exceeded", os)
        ELSE IF hashOTP(otp, otpRecord.salt) # otpRecord.otp_hash
        THEN fail("Invalid OTP", incrementAttempts(os, otpRecord))
        ELSE LET consumed == markConsumed(os, otpRecord, t)
                 user == findUser(us, phoneNumber)
             IN  IF user.user_id = 0
                 THEN [otps |-> consumed,
                       users |-> us \cup {createUser(uid, phoneNumber, userName)},
                       nextUserId |-> uid + 1,
                       result |-> Result("verifyOTP", TRUE,
                                         "User created and verified successfully",
                                         0, uid, TRUE)]
                 ELSE [otps |-> consumed,
                       users |-> updateUser(us, user, t),
                       nextUserId |-> uid,
                       result |-> Result("verifyOTP", TRUE,
                                         "User verified successfully",
                                         0, user.user_id, FALSE)]

\* ------------------------------------------------------ cleanupExpiredOTPs
\* the cleanup keyed by the creation time
expiredOtps_ByCreatedAt(os, t) == {r \in os : r.created_at < t}

expiredOtps(os, t) == {r \in os : r.expires_at < t}

\* cleanupOldOTPs of the monitoring service: deleteMany where created_at is
\* more than a day back
oldOtps(os, t) == {r \in os : r.created_at < t - DayMinutes}

\* ----------------------------------------------------------------- actions
\* direct calls of the service functions, as the service test script makes
\* them (it passes a user name)
GenerateAndSendOTP(phoneNumber, r, sms) ==
    /\ nextOtpId <= MaxOtpId
    /\ LET out == generateAndSendOTPOutcome(otps, nextOtpId, phoneNumber, r,
                                            sms, now)
       IN  /\ otps' = out.otps
           /\ nextOtpId' = out.nextOtpId
           /\ last' = out.result
    /\ UNCHANGED <<now, users, nextUserId>>
    /\ UNCHANGED httpVars

VerifyOTP(phoneNumber, otp, userName) ==
    /\ LET out == verifyOTPOutcome(otps, users, nextUserId, phoneNumber, otp,
                                   userName, now)
       IN  /\ otps' = out.otps
           /\ users' = out.users
           /\ nextUserId' = out.nextUserId
           /\ last' = out.result
    /\ UNCHANGED <<now, nextOtpId>>
    /\ UNCHANGED httpVars

CleanupExpiredOTPs ==
    /\ otps' = otps \ expiredOtps(otps, now)
    /\ last' = Result("cleanupExpiredOTPs", TRUE, "",
                      Cardinality(expiredOtps(otps, now)), 0, FALSE)
    /\ UNCHANGED <<now, users, nextOtpId, nextUserId>>
    /\ UNCHANGED httpVars

\* the wall clock advances by d minutes
Tick(d) ==
    /\ now + d <= MaxNow
    /\ now' = now + d
    /\ UNCHANGED <<otps, users, nextOtpId, nextUserId, last>>
    /\ UNCHANGED httpVars

\* POST /auth/phone/send-otp: validator(sendOTPBody), then the handler
SendOtpRoute(ip, phone, r, sms) ==
    /\ UNCHANGED callVars
    /\ requests < MaxRequests
    /\ requests' = requests + 1
    /\ IF ~sendOTPBody(phone)
       THEN /\ resp' = Response("send-otp", 400, "Validation error", NoToken,
                                NoPayload)
            /\ UNCHANGED <<otps, nextOtpId, last, reached>>
       ELSE /\ LET out == generateAndSendOTPOutcome(otps, nextOtpId, phone, r,
                                                    sms, now)
               IN  /\ otps' = out.otps
                   /\ nextOtpId' = out.nextOtpId
                   /\ last' = out.result
                   /\ resp' = IF ~out.result.success
                              THEN Response("send-otp", 400, out.result.message,
                                            NoToken, NoPayload)
                              ELSE Response("send-otp", 200, out.result.message,
                                            NoToken, NoPayload)
            /\ reached' = [reached EXCEPT !.send =
                              Reach(@, rateLimitKey(ip, phone), now,
                                    OtpRateLimitWindow)]
    /\ UNCHANGED <<now, users, nextUserId, auth>>

\* the handler without the early return on a failed result
VerifyHandler_TokenOnFailure(route, ip, phone, otp, name) ==
    /\ LET out == verifyOTPOutcome(otps, users, nextUserId, phone, otp, name,
                                   now)
           payload == tokenPayload(out.result.userId, phone, now)
       IN  /\ otps' = out.otps
           /\ users' = out.users
           /\ nextUserId' = out.nextUserId
           /\ last' = out.result
           /\ resp' = Response(route, 200,
                               IF route = "login" THEN "Login successful"
                               ELSE out.result.message,
                               encryptJwt(makeSignedJwt(payload, now)),
                               payload)
    /\ reached' = [reached EXCEPT !.verify =
                      Reach(@, rateLimitKey(ip, phone), now,
                            VerifyRateLimitWindow)]

\* the handler shared by verify-otp and login: verifyOTP, then on success
\* the payload, makeSignedJwt and encryptJwt
VerifyHandler(route, ip, phone, otp, name) ==
    /\ LET out == verifyOTPOutcome(otps, users, nextUserId, phone, otp, name,
                                   now)
           payload == tokenPayload(out.result.userId, phone, now)
       IN  /\ otps' = out.otps
           /\ users' = out.users
           /\ nextUserId' = out.nextUserId
           /\ last' = out.result
           /\ resp' = IF ~out.result.success
                      THEN Response(route, 400, out.result.message, NoToken,
                                    NoPayload)
                      ELSE Response(route, 200,
                                    IF route = "login" THEN "Login successful"
                                    ELSE out.result.message,
                                    encryptJwt(makeSignedJwt(payload, now)),
                                    payload)
    /\ reached' = [reached EXCEPT !.verify =
                      Reach(@, rateLimitKey(ip, phone), now,
                            VerifyRateLimitWindow)]

\* POST /auth/phone/verify-otp: validator(verifyOTPBody), then the handler
VerifyOtpRoute(ip, phone, otp, name) ==
    /\ UNCHANGED callVars
    /\ requests < MaxRequests
    /\ requests' = requests + 1
    /\ IF ~verifyOTPBody(phone, otp, name)
       THEN /\ resp' = Response("verify-otp", 400, "Validation error", NoToken,
                                NoPayload)
            /\ UNCHANGED <<otps, users, nextUserId, last, reached>>
       ELSE VerifyHandler("verify-otp", ip, phone, otp, name)
    /\ UNCHANGED <<now, nextOtpId, auth>>

\* POST /auth/phone/login: validator(phoneLoginBody), then the handler
LoginRoute(ip, phone, otp) ==
    /\ UNCHANGED callVars
    /\ requests < MaxRequests
    /\ requests' = requests + 1
    /\ IF ~phoneLoginBody(phone, otp)
       THEN /\ resp' = Response("login", 400, "Validation error", NoToken,
                                NoPayload)
            /\ UNCHANGED <<otps, users, nextUserId, last, reached>>
       ELSE VerifyHandler("login", ip, phone, otp, NoName)
    /\ UNCHANGED <<now, nextOtpId, auth>>

\* a protected route is requested with the bearer token of the last
\* response, with no token, or with a string that is no token
RequireAuth(bearer) ==
    /\ UNCHANGED callVars
    /\ requests < MaxRequests
    /\ requests' = requests + 1
    /\ bearer \in {NoToken, GarbageToken, resp.token}
    /\ auth' = [token |-> bearer] @@ requireAuth(bearer, now)
    /\ UNCHANGED <<now, otps, users, nextOtpId, nextUserId, last, resp,
                   reached>>

Next ==
    \/ \E p \in PhoneInputs, r \in RandomDraws, sms \in SmsOutcomes :
           GenerateAndSendOTP(p, r, sms)
    \/ \E p \in PhoneInputs, o \in OtpInputs : VerifyOTP(p, o, TestUser)
    \/ CleanupExpiredOTPs
    \/ Tick(TickMinutes)

Spec == Init /\ [][Next]_vars

\* the HTTP surface: the auth routes, the auth gate and the clock, which is
\* observed once per rate-limit window
NextHttp ==
    \/ \E ip \in ClientIps, p \in HttpPhones, r \in HttpDraws,
          sms \in SmsOutcomes : SendOtpRoute(ip, p, r, sms)
    \/ \E ip \in ClientIps, p \in HttpPhones, o \in HttpOtps,
          n \in NameInputs : VerifyOtpRoute(ip, p, o, n)
    \/ \E ip \in ClientIps, p \in HttpPhones, o \in HttpOtps :
          LoginRoute(ip, p, o)
    \/ \E b \in {NoToken, GarbageToken, resp.token} : RequireAuth(b)
    \/ Tick(OtpRateLimitWindow)

SpecHttp == Init /\ [][NextHttp]_vars

\* one client asks for OTP after OTP for one phone number and the SMS
\* provider accepts each message
GenerateAndSendOTPBurst(phoneNumber, r) ==
    /\ nextOtpId <= MaxBurst
    /\ LET out == generateAndSendOTPOutcome(otps, nextOtpId, phoneNumber, r,
                                            "sms_accepted", now)
       IN  /\ otps' = out.otps
           /\ nextOtpId' = out.nextOtpId
           /\ last' = out.result
    /\ UNCHANGED <<now, users, nextUserId>>
    /\ UNCHANGED httpVars

NextBurst ==
    \/ \E r \in HttpDraws : GenerateAndSendOTPBurst(PhoneA, r)
    \/ Tick(TickMinutes)

SpecBurst == Init /\ [][NextBurst]_vars

\* ------------------------------- analytics.routes.ts, monitoring.routes.ts
\* bearer strings a client may present: a compact JWE made with the given
\* encryption key around a JWS made with the given secret and claims
PresentedToken(key, secret, iss, aud, exp) ==
    [kind |-> "jwe",
     header |-> [alg |-> "RSA-OAEP-256", enc |-> "A256GCM",
                 kid |-> "key-2025-08", typ |-> "JWE"],
     encrypted_for |-> key,
     plaintext |-> [kind |-> "jws",
                    header |-> [alg |-> "HS256", typ |-> "JWT"],
                    payload |-> [sub |-> <<"1">>, phone_number |-> PhoneA,
                                 iat |-> 0, exp |-> exp,
                                 iss |-> iss, aud |-> aud],
                    signed_with |-> secret]]

\* accepted until its expiry, TickMinutes after it was made
ShortLivedToken ==
    PresentedToken(EncKeyPair, JwtSigningSecret, "burning-sawals-api",
                   "burning-sawals", TickMinutes)

WrongKeyToken ==
    PresentedToken("OTHER_JWK", JwtSigningSecret, "burning-sawals-api",
                   "burning-sawals", TokenTtlMinutes)

BadSignatureToken ==
    PresentedToken(EncKeyPair, "OTHER_SECRET", "burning-sawals-api",
                   "burning-sawals", TokenTtlMinutes)

WrongIssuerToken ==
    PresentedToken(EncKeyPair, JwtSigningSecret, "your-api",
                   "burning-sawals", TokenTtlMinutes)

WrongAudienceToken ==
    PresentedToken(EncKeyPair, JwtSigningSecret, "burning-sawals-api",
                   "your-web", TokenTtlMinutes)

\* a JWE for the right key whose plaintext is no JWS
NotAJwsToken ==
    [kind |-> "jwe",
     header |-> [alg |-> "RSA-OAEP-256", enc |-> "A256GCM",
                 kid |-> "key-2025-08", typ |-> "JWE"],
     encrypted_for |-> EncKeyPair,
     plaintext |-> [kind |-> "text"]]

\* the token verify-otp answers with for user 1 at time 0
IssuedToken == encryptJwt(makeSignedJwt(tokenPayload(1, PhoneA, 0), 0))

BearerInputs ==
    {NoToken, GarbageToken, NotAJwsToken, WrongKeyToken, BadSignatureToken,
     WrongIssuerToken, WrongAudienceToken, ShortLivedToken, IssuedToken}

AnalyticsRoutes ==
    {"POST /analytics/questions/:question_id/interact",
     "DELETE /analytics/questions/:question_id/interact",
     "GET /analytics/questions/:question_id/interactions",
     "GET /analytics/questions/:question_id",
     "GET /analytics/questions",
     "GET /analytics/users/me",
     "GET /analytics/users/me/interactions",
     "GET /analytics/top-questions"}

MonitoringRoutes ==
    {"GET /monitoring/health", "GET /monitoring/metrics",
     "GET /monitoring/daily-stats", "POST /monitoring/cleanup"}

ProtectedRoutes == AnalyticsRoutes \cup MonitoringRoutes

\* the same routes registered without the gate
MiddlewareChain_Unprotected(route) ==
    IF route \in AnalyticsRoutes \ {"GET /analytics/users/me"}
    THEN <<"validator", "handler">>
    ELSE <<"handler">>

\* what a request of the route passes through, in order: router.use(requireAuth)
\* precedes every analytics route, and every monitoring route names
\* requireAuth before its handler
MiddlewareChain(route) ==
    IF route \in AnalyticsRoutes \ {"GET /analytics/users/me"}
    THEN <<"requireAuth", "validator", "handler">>
    ELSE <<"requireAuth", "handler">>

\* req.user before any middleware ran
NotAuthenticated ==
    [status |-> 0, error |-> "", user |-> NoClaims, next |-> FALSE]

\* express runs the chain in order; a middleware that does not call next()
\* ends the request with its own response
RECURSIVE runChain(_, _, _, _, _)
runChain(chain, gate, bearer, valid, t) ==
    IF chain = <<>>
    THEN [gate |-> gate, status |-> 404, message |-> "Not found"]
    ELSE IF Head(chain) = "requireAuth"
    THEN LET g == requireAuth(bearer, t)
         IN  IF g.next THEN runChain(Tail(chain), g, bearer, valid, t)
             ELSE [gate |-> g, status |-> g.status, message |-> g.error]
    ELSE IF Head(chain) = "validator"
    THEN IF valid THEN runChain(Tail(chain), gate, bearer, valid, t)
         ELSE [gate |-> gate, status |-> 400, message |-> "Validation error"]
    ELSE [gate |-> gate, status |-> 200, message |-> "handler ran"]

\* a request of an analytics or monitoring route with the given bearer
\* string; valid says whether its parameters pass the route's validators
ProtectedRoute(route, bearer, valid) ==
    /\ UNCHANGED callVars
    /\ requests < MaxRequests
    /\ requests' = requests + 1
    /\ LET out == runChain(MiddlewareChain(route), NotAuthenticated, bearer,
                           valid, now)
       IN  /\ auth' = [token |-> bearer] @@ out.gate
           /\ resp' = Response(route, out.status, out.message, NoToken,
                               NoPayload)
    /\ UNCHANGED <<now, otps, users, nextOtpId, nextUserId, last, reached>>

NextGate ==
    \/ \E route \in ProtectedRoutes, b \in BearerInputs, valid \in BOOLEAN :
           ProtectedRoute(route, b, valid)
    \/ Tick(TickMinutes)

SpecGate == Init /\ [][NextGate]_vars

\* ------------------------------------------- store failures and try/catch
\* the Prisma call that rejects during one service call, if any; otps.count
\* is the query of checkSuspiciousActivity, which catches its own errors
StoreFaults ==
    {"none", "otps.count", "otps.create", "otps.delete", "otps.findFirst",
     "otps.update", "users.findUnique", "users.create", "users.update"}

\* the try block of generateAndSendOTP: what it returns, or that it threw,
\* and the store at that point
generateAndSendOTPTry(os, id, phoneNumber, r, sms, t, fault) ==
    LET done(out) == [otps |-> out.otps, nextOtpId |-> out.nextOtpId,
                      result |-> out.result, thrown |-> FALSE]
        threw(os2, id2) == [otps |-> os2, nextOtpId |-> id2,
                            result |-> NoResult, thrown |-> TRUE]
        normal == generateAndSendOTPOutcome(os, id, phoneNumber, r, sms, t)
    IN  IF ~isValidIndianPhoneNumber(phoneNumber) THEN done(normal)
        ELSE IF fault = "otps.create" THEN threw(os, id)
        ELSE IF ~sendOTP(sms) /\ fault = "otps.delete"
        THEN threw(os \cup {createOtp(id, phoneNumber, generateOTP(r),
                                      generateSalt(id), t)}, id + 1)
        ELSE done(normal)

\* the try block of verifyOTP
verifyOTPTry(os, us, uid, phoneNumber, otp, userName, t, fault) ==
    LET done(out) == [otps |-> out.otps, users |-> out.users,
                      nextUserId |-> out.nextUserId,
                      result |-> out.result, thrown |-> FALSE]
        threw(os2) == [otps |-> os2, users |-> us, nextUserId |-> uid,
                       result |-> NoResult, thrown |-> TRUE]
        normal == verifyOTPOutcome(os, us, uid, phoneNumber, otp, userName, t)
        otpRecord == findFirstOtp(os, phoneNumber, t)
    IN  IF ~isValidOTP(otp) THEN done(normal)
        ELSE IF fault = "otps.findFirst" THEN threw(os)
        ELSE IF otpRecord = NoRecord \/ attemptsExceeded(otpRecord)
        THEN done(normal)
        ELSE IF fault = "otps.update" THEN threw(os)
        ELSE IF hashOTP(otp, otpRecord.salt) # otpRecord.otp_hash
        THEN done(normal)
        ELSE LET consumed == markConsumed(os, otpRecord, t)
                 user == findUser(us, phoneNumber)
             IN  IF fault = "users.findUnique" THEN threw(consumed)
                 ELSE IF user.user_id = 0 /\ fault = "users.create"
                 THEN threw(consumed)
                 ELSE IF user.user_id # 0 /\ fault = "users.update"
                 THEN threw(consumed)
                 ELSE done(normal)

\* a function body without its catch clause
catchError_Rethrows(body, op, message) == body

\* catch (error) { console.error(..); return { success: false, message } }
catchError(body, op, message) ==
    IF body.thrown
    THEN [body EXCEPT !.result = Result(op, FALSE, message, 0, 0, FALSE),
                      !.thrown = FALSE]
    ELSE body

generateAndSendOTPCaught(os, id, phoneNumber, r, sms, t, fault) ==
    catchError(generateAndSendOTPTry(os, id, phoneNumber, r, sms, t, fault),
               "generateAndSendOTP", "Failed to generate OTP")

verifyOTPCaught(os, us, uid, phoneNumber, otp, userName, t, fault) ==
    catchError(verifyOTPTry(os, us, uid, phoneNumber, otp, userName, t,
                             fault),
               "verifyOTP", "Failed to verify OTP")

\* what the send-otp handler answers for what generateAndSendOTP did; an
\* exception reaches asyncHandler's next(error) and the error middleware
sendOtpResponse(out) ==
    IF out.thrown
    THEN Response("send-otp", 500, "Unchaced Exception", NoToken, NoPayload)
    ELSE IF ~out.result.success
    THEN Response("send-otp", 400, out.result.message, NoToken, NoPayload)
    ELSE Response("send-otp", 200, out.result.message, NoToken, NoPayload)

\* what the verify-otp handler answers for what verifyOTP did
verifyOtpResponse(out, phone, t) ==
    IF out.thrown
    THEN Response("verify-otp", 500, "Unchaced Exception", NoToken, NoPayload)
    ELSE IF ~out.result.success
    THEN Response("verify-otp", 400, out.result.message, NoToken, NoPayload)
    ELSE LET payload == tokenPayload(out.result.userId, phone, t)
         IN  Response("verify-otp", 200, out.result.message,
                      encryptJwt(makeSignedJwt(payload, t)), payload)

\* POST /auth/phone/send-otp while the store may fail
SendOtpRouteStoreFault(phone, r, sms, fault) ==
    /\ UNCHANGED callVars
    /\ requests < MaxFaultRequests
    /\ requests' = requests + 1
    /\ sendOTPBody(phone)
    /\ LET out == generateAndSendOTPCaught(otps, nextOtpId, phone, r, sms,
                                           now, fault)
       IN  /\ otps' = out.otps
           /\ nextOtpId' = out.nextOtpId
           /\ last' = out.result
           /\ resp' = sendOtpResponse(out)
    /\ UNCHANGED <<now, users, nextUserId, auth, reached>>

\* POST /auth/phone/verify-otp while the store may fail
VerifyOtpRouteStoreFault(phone, otp, name, fault) ==
    /\ UNCHANGED callVars
    /\ requests < MaxFaultRequests
    /\ requests' = requests + 1
    /\ verifyOTPBody(phone, otp, name)
    /\ LET out == verifyOTPCaught(otps, users, nextUserId, phone, otp, name,
                                  now, fault)
       IN  /\ otps' = out.otps
           /\ users' = out.users
           /\ nextUserId' = out.nextUserId
           /\ last' = out.result
           /\ resp' = verifyOtpResponse(out, phone, now)
    /\ UNCHANGED <<now, nextOtpId, auth, reached>>

NextFault ==
    \/ \E p \in HttpPhones, r \in HttpDraws, sms \in SmsOutcomes,
          f \in StoreFaults : SendOtpRouteStoreFault(p, r, sms, f)
    \/ \E p \in HttpPhones, o \in HttpOtps, f \in StoreFaults :
          VerifyOtpRouteStoreFault(p, o, NoName, f)
    \/ Tick(OtpRateLimitWindow)

SpecFault == Init /\ [][NextFault]_vars

\* ------------------------------------ verifyOTP between its await points
\* Each await of verifyOTP is a point where another request may run. The
\* code between two awaits runs without interruption: the lookup is followed
\* by the budget check and the hash comparison, then comes one update.

\* after findFirst: what the call does next, decided on the record it read
afterFind(call, otp, otpRecord) ==
    LET ended(msg) == [call EXCEPT !.pc = "done",
                                   !.otpRecord = otpRecord,
                                   !.result = Result("verifyOTP", FALSE, msg,
                                                     0, 0, FALSE)]
    IN  IF otpRecord = NoRecord THEN ended("Invalid or expired OTP")
        ELSE IF attemptsExceeded(otpRecord)
        THEN ended("Maximum OTP attempts exceeded")
        ELSE IF hashOTP(otp, otpRecord.salt) # otpRecord.otp_hash
        THEN [call EXCEPT !.pc = "increment", !.otpRecord = otpRecord]
        ELSE [call EXCEPT !.pc = "consume", !.otpRecord = otpRecord]

\* verifyOTP up to the resolution of prisma.otps.findFirst
VerifyFind(c, phoneNumber, otp) ==
    /\ UNCHANGED issuedAt
    /\ calls[c].pc \in {"idle", "done"}
    /\ requests < MaxRaceCalls
    /\ requests' = requests + 1
    /\ IF ~isValidOTP(otp)
       THEN /\ calls' = [calls EXCEPT ![c] =
                   [IdleCall EXCEPT !.pc = "done", !.phone = phoneNumber,
                                    !.result = Result("verifyOTP", FALSE,
                                                      "Invalid OTP format",
                                                      0, 0, FALSE)]]
            /\ UNCHANGED failedCompares
       ELSE LET otpRecord == findFirstOtp(otps, phoneNumber, now)
                call == afterFind([IdleCall EXCEPT !.phone = phoneNumber],
                                  otp, otpRecord)
            IN  /\ calls' = [calls EXCEPT ![c] = call]
                /\ failedCompares' =
                       IF call.pc = "increment"
                       THEN [i \in DOMAIN failedCompares
                                     \cup {otpRecord.otp_id} |->
                               IF i = otpRecord.otp_id
                               THEN (IF i \in DOMAIN failedCompares
                                     THEN failedCompares[i] ELSE 0) + 1
                               ELSE failedCompares[i]]
                       ELSE failedCompares
    /\ UNCHANGED <<now, otps, users, nextOtpId, nextUserId, last, resp, auth,
                   reached>>

\* prisma.otps.update({ data: { attempts: otpRecord.attempts + 1 } })
VerifyIncrement(c) ==
    /\ UNCHANGED issuedAt
    /\ calls[c].pc = "increment"
    /\ otps' = incrementAttempts(otps, calls[c].otpRecord)
    /\ calls' = [calls EXCEPT ![c].pc = "done",
                              ![c].result = Result("verifyOTP", FALSE,
                                                   "Invalid OTP", 0, 0, FALSE)]
    /\ UNCHANGED <<now, users, nextOtpId, nextUserId, last, resp, auth,
                   reached, requests, failedCompares>>

\* the update with a condition on the stored row, which ends the call when
\* the row was consumed in the meantime
consumeStep_IfUnconsumed(os, call, t) ==
    IF \E r \in os : r.otp_id = call.otpRecord.otp_id /\ r.consumed_at = NULL
    THEN [otps |-> markConsumed(os, call.otpRecord, t),
          call |-> [call EXCEPT !.pc = "findUser"]]
    ELSE [otps |-> os,
          call |-> [call EXCEPT !.pc = "done",
                                !.result = Result("verifyOTP", FALSE,
                                                  "Invalid or expired OTP",
                                                  0, 0, FALSE)]]

\* prisma.otps.update({ where: { otp_id }, data: { consumed_at: new Date() } })
consumeStep(os, call, t) ==
    [otps |-> markConsumed(os, call.otpRecord, t),
     call |-> [call EXCEPT !.pc = "findUser"]]

VerifyConsume(c) ==
    /\ UNCHANGED issuedAt
    /\ calls[c].pc = "consume"
    /\ LET out == consumeStep(otps, calls[c], now)
       IN  /\ otps' = out.otps
           /\ calls' = [calls EXCEPT ![c] = out.call]
    /\ UNCHANGED <<now, users, nextOtpId, nextUserId, last, resp, auth,
                   reached, requests, failedCompares>>

\* prisma.users.findUnique({ where: { phone_number } })
VerifyFindUser(c) ==
    /\ UNCHANGED issuedAt
    /\ calls[c].pc = "findUser"
    /\ calls' = [calls EXCEPT ![c].pc = "writeUser",
                              ![c].user = findUser(users, calls[c].phone)]
    /\ UNCHANGED <<now, otps, users, nextOtpId, nextUserId, last, resp, auth,
                   reached, requests, failedCompares>>

\* a users table without the unique index
createRejected_NoUniqueIndex(us, phoneNumber) == FALSE

\* users.phone_number is unique (findUnique is keyed by it): a create with
\* a phone number that a row already has is rejected
createRejected(us, phoneNumber) == \E u \in us : u.phone_number = phoneNumber

\* prisma.users.create or prisma.users.update, and the return; create is
\* rejected by the unique phone_number that findUnique relies on when another
\* call has created the identity in the meantime, and the catch clause
\* answers
VerifyWriteUser(c) ==
    /\ UNCHANGED issuedAt
    /\ calls[c].pc = "writeUser"
    /\ LET call == calls[c]
           finish(res) == [calls EXCEPT ![c].pc = "done", ![c].result = res]
       IN  IF call.user.user_id = 0
           THEN IF createRejected(users, call.phone)
                THEN /\ calls' = finish(Result("verifyOTP", FALSE,
                                               "Failed to verify OTP",
                                               0, 0, FALSE))
                     /\ UNCHANGED <<users, nextUserId>>
                ELSE /\ users' = users \cup
                            {createUser(nextUserId, call.phone, NoName)}
                     /\ nextUserId' = nextUserId + 1
                     /\ calls' = finish(Result("verifyOTP", TRUE,
                                    "User created and verified successfully",
                                    0, nextUserId, TRUE))
           ELSE /\ users' = updateUser(users, call.user, now)
                /\ UNCHANGED nextUserId
                /\ calls' = finish(Result("verifyOTP", TRUE,
                                          "User verified successfully",
                                          0, call.user.user_id, FALSE))
    /\ UNCHANGED <<now, otps, nextOtpId, last, resp, auth, reached, requests,
                   failedCompares>>

\* the codes the callers try: the one that was sent and a wrong one
RaceOtps == {generateOTP(r) : r \in HttpDraws}
                \cup {<<"0", "0", "0", "0", "0", "0">>}

NextRace ==
    \/ \E r \in HttpDraws : GenerateAndSendOTP(PhoneA, r, "sms_accepted")
    \/ \E c \in Callers, o \in RaceOtps : VerifyFind(c, PhoneA, o)
    \/ \E c \in Callers : VerifyIncrement(c)
    \/ \E c \in Callers : VerifyConsume(c)
    \/ \E c \in Callers : VerifyFindUser(c)
    \/ \E c \in Callers : VerifyWriteUser(c)

SpecRace == Init /\ [][NextRace]_vars

\* ----------------------------------------------------- monitoring.service.ts
\* checkSuspiciousActivity: two counts over the rows of the phone created in
\* the last hour; a rejected count is caught and answered false
checkSuspiciousActivity(os, phoneNumber, t, countFails) ==
    LET oneHourAgo == t - HourMinutes
        recentOTPs == Cardinality({r \in os :
                          /\ r.phone_number = phoneNumber
                          /\ r.created_at >= oneHourAgo})
        failedAttempts == Cardinality({r \in os :
                              /\ r.phone_number = phoneNumber
                              /\ r.created_at >= oneHourAgo
                              /\ r.attempts >= SuspiciousAttempts})
    IN  IF countFails THEN FALSE
        ELSE IF recentOTPs > OtpHourlyCap THEN TRUE
        ELSE failedAttempts > SuspiciousFailedRecords

\* verifyOTP refusing the request the heuristic flags
verifyOTPMonitored_Blocks(os, us, uid, phoneNumber, otp, userName, t, countFails) ==
    LET isSuspicious == checkSuspiciousActivity(os, phoneNumber, t, countFails)
        out == verifyOTPOutcome(os, us, uid, phoneNumber, otp, userName, t)
    IN  IF isSuspicious
        THEN [otps |-> os, users |-> us, nextUserId |-> uid,
              result |-> Result("verifyOTP", FALSE, "Suspicious activity",
                                0, 0, FALSE),
              warned |-> TRUE]
        ELSE [otps |-> out.otps, users |-> out.users,
              nextUserId |-> out.nextUserId, result |-> out.result,
              warned |-> FALSE]

\* verifyOTP from its first statement: the heuristic is asked, a warning is
\* logged when it flags the phone, and the verification follows
verifyOTPMonitored(os, us, uid, phoneNumber, otp, userName, t, countFails) ==
    LET isSuspicious == checkSuspiciousActivity(os, phoneNumber, t, countFails)
        out == verifyOTPOutcome(os, us, uid, phoneNumber, otp, userName, t)
    IN  [otps |-> out.otps, users |-> out.users,
         nextUserId |-> out.nextUserId, result |-> out.result,
         warned |-> isSuspicious]

\* generateAndSendOTP, with the issuance noted when it succeeded; the calls
\* that failed are the ids handed out less the issuances noted
IssueMonitored(phoneNumber, r, sms) ==
    /\ Len(issuedAt) < MaxBurst
    /\ ~sendOTP(sms) => nextOtpId - 1 - Len(issuedAt) < MaxRollbacks
    /\ LET out == generateAndSendOTPOutcome(otps, nextOtpId, phoneNumber, r,
                                            sms, now)
       IN  /\ otps' = out.otps
           /\ nextOtpId' = out.nextOtpId
           /\ last' = out.result
           /\ issuedAt' = IF out.result.success
                          THEN Append(issuedAt,
                                      [phone |-> phoneNumber, at |-> now])
                          ELSE issuedAt
    /\ UNCHANGED <<now, users, nextUserId, resp, auth, reached, requests,
                   calls, failedCompares>>

VerifyMonitored(phoneNumber, otp, countFails) ==
    /\ requests < MaxMonitorVerifies
    /\ requests' = requests + 1
    /\ LET out == verifyOTPMonitored(otps, users, nextUserId, phoneNumber,
                                     otp, NoName, now, countFails)
       IN  /\ otps' = out.otps
           /\ users' = out.users
           /\ nextUserId' = out.nextUserId
           /\ last' = out.result
    /\ UNCHANGED <<now, nextOtpId, resp, auth, reached, callVars>>

NextMonitor ==
    \/ \E r \in HttpDraws, sms \in {"sms_accepted", "send_internal_error"} :
           IssueMonitored(PhoneA, r, sms)
    \/ \E o \in RaceOtps, f \in BOOLEAN : VerifyMonitored(PhoneA, o, f)
    \/ CleanupExpiredOTPs
    \/ Tick(OtpRateLimitWindow)

SpecMonitor == Init /\ [][NextMonitor]_vars

\* ================================================================== claims
\* The properties below speak of the call a client may make in a reachable
\* state: Verify(p, c) and Issue(p, r, sms) are what verifyOTP and
\* generateAndSendOTP return and leave behind when called now.
Verify(p, c) == verifyOTPOutcome(otps, users, nextUserId, p, c, TestUser, now)

Issue(p, r, sms) == generateAndSendOTPOutcome(otps, nextOtpId, p, r, sms, now)

\* the unexpired, unconsumed records of a phone number
ActiveOtps(p) ==
    {r \in otps : r.phone_number = p /\ r.expires_at > now /\ r.consumed_at = NULL}

\* r is the most recently created active record of p
IsLatestActive(r, p) ==
    /\ r \in ActiveOtps(p)
    /\ \A q \in ActiveOtps(p) :
          \/ q.created_at < r.created_at
          \/ q.created_at = r.created_at /\ q.otp_id <= r.otp_id

\* the code a record was generated from
CodeOf(r) == r.otp_hash.digest_of

\* C1: in every reachable state, for every phone and every code, verifyOTP
\* returns success exactly when the phone has an active (unexpired,
\* unconsumed) record, the most recently created one was generated from that
\* code, and its attempts are below max_attempts.
C1_VerifyIffLatestActiveCode ==
    \A p \in PhoneInputs, c \in OtpInputs :
        Verify(p, c).result.success <=>
            \E r \in otps : /\ IsLatestActive(r, p)
                            /\ CodeOf(r) = c
                            /\ r.attempts < r.max_attempts

\* a verification has succeeded while the phone had an older active record
C1_Witness ==
    /\ last.op = "verifyOTP" /\ last.success
    /\ \E r \in otps, q \in otps :
          /\ r.consumed_at = now /\ q.phone_number = r.phone_number
          /\ q.otp_id < r.otp_id /\ q.consumed_at = NULL /\ q.expires_at > now

C3_AttemptBudget ==
    /\ \A r \in otps : r.attempts <= r.max_attempts /\ r.max_attempts = MaxAttempts
    /\ \A p \in PhoneInputs, c \in OtpInputs, r \in otps :
          (IsLatestActive(r, p) /\ r.attempts = MaxAttempts /\ Len(c) = OtpLength)
              => /\ Verify(p, c).result.message = "Maximum OTP attempts exceeded"
                 /\ ~Verify(p, c).result.success
                 /\ Verify(p, c).otps = otps

\* five wrong codes were tried against a record and the next call was refused
C3_Witness ==
    /\ last.op = "verifyOTP"
    /\ last.message = "Maximum OTP attempts exceeded"
    /\ \E r \in otps : r.attempts = MaxAttempts /\ r.consumed_at = NULL

\* the 10-character strings of digits that start with 6, 7, 8 or 9
IsTenDigitMobile(p) ==
    /\ Len(p) = 10
    /\ \A i \in 1..Len(p) : p[i] \in Digits
    /\ p[1] \in {"6", "7", "8", "9"}

\* the SMS provider accepted the message, or none is configured
DispatchWorks(sms) == sms \in {"sms_accepted", "sms_not_configured"}

\* C5: in every reachable state, for every 10-digit phone number starting with
\* 6, 7, 8 or 9 and a working dispatch, generateAndSendOTP succeeds and the
\* store it leaves is the old store plus exactly one record, which is for
\* that phone and has attempts = 0, max_attempts = 5, consumed_at = null and
\* expires_at - created_at = 10 minutes.
C5_IssueCreatesOneRecord ==
    \A p \in PhoneInputs, r \in RandomDraws, sms \in SmsOutcomes :
        (IsTenDigitMobile(p) /\ DispatchWorks(sms)) =>
            LET out == Issue(p, r, sms)
            IN  /\ out.result.success
                /\ out.result.message = "OTP sent successfully"
                /\ \E rec \in out.otps :
                      /\ rec \notin otps
                      /\ out.otps = otps \cup {rec}
                      /\ rec.otp_id = out.result.otpId
                      /\ rec.phone_number = p
                      /\ rec.attempts = 0
                      /\ rec.max_attempts = 5
                      /\ rec.consumed_at = NULL
                      /\ rec.expires_at - rec.created_at = 10

\* an OTP has just been issued and its record is in the store, untouched
C5_Witness ==
    /\ last.op = "generateAndSendOTP" /\ last.success
    /\ \E rec \in otps : /\ rec.otp_id = last.otpId
                         /\ IsTenDigitMobile(rec.phone_number)
                         /\ rec.created_at = now
                         /\ rec.attempts = 0

RECURSIVE DigitsOf(_)
DigitsOf(p) ==
    IF p = <<>> THEN <<>>
    ELSE IF Head(p) \in Digits THEN <<Head(p)>> \o DigitsOf(Tail(p))
    ELSE DigitsOf(Tail(p))

C7_DispatchFailureRollsBack ==
    \A p \in PhoneInputs, r \in RandomDraws, sms \in SmsOutcomes :
        (isValidIndianPhoneNumber(p) /\ ~sendOTP(sms)) =>
            LET out == Issue(p, r, sms)
            IN  /\ ~out.result.success
                /\ out.result.message = "Failed to send OTP"
                /\ out.otps = otps
                /\ \A rec \in out.otps : rec.otp_id # nextOtpId

\* a dispatch has just failed on a store that holds another record
C7_Witness ==
    /\ last.op = "generateAndSendOTP"
    /\ last.message = "Failed to send OTP"
    /\ nextOtpId > 1
    /\ otps # {}
    /\ \A rec \in otps : rec.otp_id # nextOtpId - 1

\* C8: there is at most one identity per phone number; a successful verifyOTP
\* for a phone without identity adds exactly one identity (phone-verified,
\* auth_provider "phone") and returns isNewUser = true with its id; a
\* successful verifyOTP for a phone with an identity returns isNewUser =
\* false with that identity's id, sets its last_login_at and adds none.
C8_NewThenExistingIdentity ==
    /\ \A u \in users, v \in users : u.phone_number = v.phone_number => u = v
    /\ \A p \in PhoneInputs, c \in OtpInputs :
          LET out == Verify(p, c)
              known == {u \in users : u.phone_number = p}
          IN  out.result.success =>
                  IF known = {}
                  THEN /\ out.result.isNewUser
                       /\ \E u \in out.users :
                             /\ u \notin users
                             /\ out.users = users \cup {u}
                             /\ u.user_id = out.result.userId
                             /\ \A v \in users : v.user_id # u.user_id
                             /\ u.phone_number = p
                             /\ u.is_phone_verified
                             /\ u.auth_provider = "phone"
                  ELSE /\ ~out.result.isNewUser
                       /\ \A u \in known : out.result.userId = u.user_id
                       /\ Cardinality(out.users) = Cardinality(users)
                       /\ \A u \in users \ known : u \in out.users
                       /\ \A u \in known :
                             [u EXCEPT !.last_login_at = now,
                                       !.is_phone_verified = TRUE] \in out.users

\* a second OTP of a phone was verified: the identity created by the first
\* verification was found again and its last_login_at set
C8_Witness ==
    /\ last.op = "verifyOTP" /\ last.success /\ ~last.isNewUser
    /\ \E u \in users : /\ u.user_id = last.userId
                        /\ u.last_login_at = now
    /\ Cardinality({r \in otps : r.consumed_at # NULL}) = 2

\* C4: a bearer token that a phone-auth route issued (makeSignedJwt, then
\* encryptJwt) and that is presented to requireAuth before its expiry is
\* admitted, and the claims attached to the request equal the payload the
\* route built: same sub, phone_number, iss and aud.
C4_TokenRoundTrip ==
    (/\ resp.token # NoToken
     /\ auth.token = resp.token
     /\ now < resp.payload.exp) =>
        /\ auth.next
        /\ auth.user.sub = resp.payload.sub
        /\ auth.user.phone_number = resp.payload.phone_number
        /\ auth.user.iss = resp.payload.iss
        /\ auth.user.aud = resp.payload.aud

\* C9: for every (client IP, phone number) key, at most 3 send-otp requests
\* of one 15-minute window reach generateAndSendOTP.
C9_SendRateLimit == reached.send.count <= OtpRateLimitMax

\* C10: for every (client IP, phone number) key, at most 5 verify-otp or
\* login requests of one 10-minute window reach verifyOTP.
C10_VerifyRateLimit == reached.verify.count <= VerifyRateLimitMax

\* C11: for every phone number, at most 10 OTP requests of one rolling hour
\* are served: the store never holds more than 10 records of one phone that
\* were created within the last hour.
C11_HourlyCapPerPhone ==
    \A p \in PhoneInputs :
        Cardinality({rec \in otps : /\ rec.phone_number = p
                                    /\ rec.created_at > now - HourMinutes})
            <= OtpHourlyCap

\* the bearer strings that decryptAndVerify refuses now
RefusedBearers ==
    {b \in BearerInputs \ {NoToken} : ~decryptAndVerify(b, now).ok}

\* C12: every presented bearer token that fails at either layer (malformed,
\* not decryptable, bad signature, expired, issuer or audience mismatch) gets
\* one and the same outcome from requireAuth, 401 with the body "Invalid or
\* expired token", whichever check failed, and next() is not called; a
\* refused request of a protected route was answered with exactly that.
C12_AuthGateOpaque ==
    /\ \A b \in RefusedBearers :
          requireAuth(b, now) =
              [status |-> 401, error |-> "Invalid or expired token",
               user |-> NoClaims, next |-> FALSE]
    /\ (resp.route \in ProtectedRoutes /\ auth.token # NoToken /\ ~auth.next)
          => /\ resp.status = 401
             /\ resp.message = "Invalid or expired token"
             /\ auth.user = NoClaims

\* the token of the phone-auth routes was refused at a time when the inputs
\* fail in seven different ways, expiry among them
C12_Witness ==
    /\ auth.token = IssuedToken
    /\ resp.status = 401
    /\ ShortLivedToken \in RefusedBearers
    /\ Cardinality({decryptAndVerify(b, now).error : b \in RefusedBearers}) = 7

\* C13: the handler of an analytics or monitoring route has run only for a
\* request whose bearer token decryptAndVerify accepted, with the token's
\* claims attached to the request; a request with no token or a refused
\* token was answered 401 by the gate.
C13_HandlersBehindGate ==
    resp.route \in ProtectedRoutes =>
        /\ resp.status # 401 =>
              /\ auth.next
              /\ auth.token # NoToken
              /\ \E t \in 0..now : /\ decryptAndVerify(auth.token, t).ok
                                   /\ auth.user =
                                          decryptAndVerify(auth.token, t).payload
        /\ (auth.token = NoToken \/ ~auth.next) =>
              /\ resp.status = 401
              /\ resp.message \in {"Missing token", "Invalid or expired token"}

\* an analytics handler has run for an authenticated request
C13_Witness ==
    /\ resp.route \in AnalyticsRoutes
    /\ resp.message = "handler ran"
    /\ auth.next
    /\ auth.user.sub = <<"1">>

\* C14: a verifyOTP call with a wrong code for a phone that has an active
\* record and a verifyOTP call for a phone that has no active record return
\* the same message, "Invalid or expired OTP".
C14_WrongCodeLooksLikeNoRecord ==
    \A p \in PhoneInputs, q \in PhoneInputs, c \in OtpInputs :
        (/\ isValidOTP(c)
         /\ ActiveOtps(q) = {}
         /\ \E r \in otps : /\ IsLatestActive(r, p)
                            /\ CodeOf(r) # c
                            /\ r.attempts < r.max_attempts)
            => /\ Verify(q, c).result.message = "Invalid or expired OTP"
               /\ Verify(p, c).result.message = Verify(q, c).result.message

\* C15: in every reachable state, for every input and every store failure at
\* any step, generateAndSendOTP and verifyOTP return a result value and
\* throw nothing; where the body failed the result has success = false and
\* a message; and the routes answer every unsuccessful result with 400 and
\* the result's message.
C15_NoThrowPastBoundary ==
    /\ \A p \in PhoneInputs, r \in HttpDraws, sms \in SmsOutcomes,
          f \in StoreFaults :
          LET out == generateAndSendOTPCaught(otps, nextOtpId, p, r, sms,
                                              now, f)
              try == generateAndSendOTPTry(otps, nextOtpId, p, r, sms, now, f)
          IN  /\ ~out.thrown
              /\ out.result.op = "generateAndSendOTP"
              /\ out.result.message # ""
              /\ try.thrown => ~out.result.success
              /\ ~out.result.success =>
                    /\ sendOtpResponse(out).status = 400
                    /\ sendOtpResponse(out).message = out.result.message
    /\ \A p \in PhoneInputs, c \in OtpInputs, f \in StoreFaults :
          LET out == verifyOTPCaught(otps, users, nextUserId, p, c, NoName,
                                     now, f)
              try == verifyOTPTry(otps, users, nextUserId, p, c, NoName,
                                  now, f)
          IN  /\ ~out.thrown
              /\ out.result.op = "verifyOTP"
              /\ out.result.message # ""
              /\ try.thrown => ~out.result.success
              /\ ~out.result.success =>
                    /\ verifyOtpResponse(out, p, now).status = 400
                    /\ verifyOtpResponse(out, p, now).message =
                           out.result.message
    /\ resp.route \in {"send-otp", "verify-otp"} =>
          /\ resp.status \in {200, 400}
          /\ resp.status = 400 <=> ~last.success
          /\ resp.message = last.message

\* users.create failed after the code had matched: the route answered 400
\* "Failed to verify OTP", the record is consumed and no identity exists
C15_Witness ==
    /\ resp.route = "verify-otp" /\ resp.status = 400
    /\ last.message = "Failed to verify OTP"
    /\ users = {}
    /\ \E rec \in otps : rec.consumed_at # NULL

\* C16: every stored OTP record and identity holds its phone number in the
\* canonical 10-digit form, and two accepted inputs with the same 10 digits
\* that differ only in formatting characters address the same records and
\* the same identity: verifyOTP answers both alike.
C16_CanonicalPhoneStored ==
    /\ \A rec \in otps : /\ IsTenDigitMobile(rec.phone_number)
                         /\ rec.phone_number =
                                normalizePhoneNumber(rec.phone_number)
    /\ \A u \in users : IsTenDigitMobile(u.phone_number)
    /\ \A p \in PhoneInputs, q \in PhoneInputs, c \in OtpInputs :
          (/\ isValidIndianPhoneNumber(p) /\ isValidIndianPhoneNumber(q)
           /\ StripNonDigits(p) = StripNonDigits(q))
              => Verify(p, c).result = Verify(q, c).result

\* C17: a call whose lookup returned an unconsumed record and whose code
\* matched writes consumed_at and goes on to the identity step whatever the
\* stored row says by then, so two concurrent calls with the correct code
\* that both read consumed_at = null both return success against that one
\* record; and a call returns success only after such a write.
C17_ConcurrentCallsBothConsume ==
    \A c \in Callers :
        /\ calls[c].pc = "consume" =>
              LET out == consumeStep(otps, calls[c], now)
              IN  /\ calls[c].otpRecord.consumed_at = NULL
                  /\ out.call.pc = "findUser"
                  /\ \A r \in otps :
                        r.otp_id = calls[c].otpRecord.otp_id =>
                            [r EXCEPT !.consumed_at = now] \in out.otps
        /\ (calls[c].pc = "done" /\ calls[c].result.success) =>
              \E r \in otps : /\ r.otp_id = calls[c].otpRecord.otp_id
                              /\ r.consumed_at # NULL

\* both callers have returned success against the same record
C17_Witness ==
    /\ \A c \in Callers : calls[c].pc = "done" /\ calls[c].result.success
    /\ calls["caller1"].otpRecord.otp_id = calls["caller2"].otpRecord.otp_id
    /\ calls["caller1"].otpRecord.otp_id # 0

\* the failed comparisons made against a record so far
FailedComparesOf(id) ==
    IF id \in DOMAIN failedCompares THEN failedCompares[id] ELSE 0

\* C18: for every interleaving of verifyOTP calls, at most max_attempts (5)
\* failed hash comparisons are made against one record, each failed
\* comparison raises the stored attempts by exactly 1 (once no increment is
\* pending, attempts equals the number of failed comparisons), and no
\* comparison is made against a record whose attempts have reached 5.
C18_AttemptBudgetInterleaved ==
    /\ \A r \in otps : FailedComparesOf(r.otp_id) <= MaxAttempts
    /\ (\A c \in Callers : calls[c].pc # "increment") =>
          \A r \in otps : r.attempts = FailedComparesOf(r.otp_id)
    /\ \A c \in Callers :
          calls[c].pc \in {"increment", "consume"} =>
              calls[c].otpRecord.attempts < MaxAttempts

\* C19: once a record's consumed_at is set it is never reset to null; no
\* verifyOTP call whose lookup runs afterwards selects the record; and the
\* record is changed by no call but one that had read it before it was
\* consumed and was still in flight (calls that follow the consumption leave
\* its attempts and consumed_at as they are).
C19_ConsumptionOneWay ==
    [][\A r \in otps :
          r.consumed_at # NULL =>
              /\ \A q \in otps' :
                    q.otp_id = r.otp_id =>
                        /\ q.consumed_at # NULL
                        /\ q # r =>
                              \E c \in Callers :
                                  /\ calls[c].pc \in {"increment", "consume"}
                                  /\ calls[c].otpRecord.otp_id = r.otp_id
                                  /\ calls'[c] # calls[c]
              /\ \A c \in Callers :
                    (calls[c].pc \in {"idle", "done"} /\ calls'[c] # calls[c])
                        => calls'[c].otpRecord.otp_id # r.otp_id]_vars

\* one caller has consumed the only record of the phone and the other
\* caller's call has ended without selecting a record
C19_Witness ==
    \E r \in otps, c \in Callers, d \in Callers :
        /\ r.consumed_at # NULL /\ r.expires_at > now
        /\ ActiveOtps(r.phone_number) = {}
        /\ calls[c].pc = "done" /\ calls[c].result.success
        /\ calls[c].otpRecord.otp_id = r.otp_id
        /\ calls[d].pc = "done" /\ calls[d].phone = r.phone_number
        /\ calls[d].result.message = "Invalid or expired OTP"
        /\ calls[d].otpRecord = NoRecord

\* C20: generateAndSendOTP leaves every existing record as it is; while a
\* newer active record exists, the code of an older active record is
\* rejected; and once the newer record is consumed, the most recent
\* remaining active record is the one verifyOTP selects.
C20_OlderRecordsStayValid ==
    /\ \A p \in PhoneInputs, r \in RandomDraws, sms \in SmsOutcomes :
          otps \subseteq Issue(p, r, sms).otps
    /\ \A p \in PhoneInputs, newer \in otps, older \in otps :
          (/\ IsLatestActive(newer, p)
           /\ older \in ActiveOtps(p) /\ older # newer
           /\ newer.attempts < newer.max_attempts)
              => /\ CodeOf(older) # CodeOf(newer) =>
                       /\ ~Verify(p, CodeOf(older)).result.success
                       /\ Verify(p, CodeOf(older)).result.message =
                              "Invalid OTP"
                 /\ LET first == Verify(p, CodeOf(newer))
                        rest == ActiveOtps(p) \ {newer}
                        next == findFirstOtp(first.otps, p, now)
                    IN  /\ first.result.success
                        /\ next \in rest
                        /\ \A q \in rest : CreatedLater(next, q)

\* the older of two records with different codes was verified after the
\* newer one had been consumed
C20_Witness ==
    /\ last.op = "verifyOTP" /\ last.success
    /\ \E newer \in otps, older \in otps :
          /\ older.phone_number = newer.phone_number
          /\ older.otp_id < newer.otp_id
          /\ CodeOf(older) # CodeOf(newer)
          /\ newer.consumed_at # NULL
          /\ older.consumed_at = now
          /\ older.attempts = 1

\* the call of caller c has written consumed_at
MarkedConsumed(c) ==
    \/ calls[c].pc \in {"findUser", "writeUser"}
    \/ /\ calls[c].pc = "done"
       /\ calls[c].otpRecord # NoRecord
       /\ ~attemptsExceeded(calls[c].otpRecord)
       /\ calls[c].result.message # "Invalid OTP"

\* C21: with a healthy store and any interleaving of verifyOTP calls, a call
\* that has marked a record consumed returns success with the userId of an
\* existing identity: the identity step never fails.
C21_ConsumedImpliesIdentity ==
    \A c \in Callers :
        (MarkedConsumed(c) /\ calls[c].pc = "done") =>
            /\ calls[c].result.success
            /\ \E u \in users : /\ u.user_id = calls[c].result.userId
                                /\ u.phone_number = calls[c].phone

\* C22: sendOTP reports success exactly when the provider accepted the
\* message or none is configured; when the provider rejects the message or
\* the request errors, generateAndSendOTP fails and leaves no record of the
\* call in the store.
C22_DispatchOutcomeReported ==
    \A p \in PhoneInputs, r \in RandomDraws, sms \in SmsOutcomes :
        isValidIndianPhoneNumber(p) =>
            LET out == Issue(p, r, sms)
            IN  /\ sendOTP(sms) <=> DispatchWorks(sms)
                /\ out.result.success <=> DispatchWorks(sms)
                /\ ~DispatchWorks(sms) => out.otps = otps

\* the OTPs issued for the phone in the last rolling hour
IssuancesInLastHour(p) ==
    Cardinality({i \in DOMAIN issuedAt :
                    /\ issuedAt[i].phone = p
                    /\ issuedAt[i].at >= now - HourMinutes})

\* the records of the phone from the last hour that used up 5 attempts
ExhaustedInLastHour(p) ==
    Cardinality({r \in otps : /\ r.phone_number = p
                              /\ r.created_at >= now - HourMinutes
                              /\ r.attempts >= 5})

\* C23: after any sequence of issue, verify, rollback and cleanup,
\* checkSuspiciousActivity(phone) is true exactly when more than 10 OTPs were
\* issued for the phone in the last rolling hour or more than 3 records of
\* the phone from the last hour have attempts >= 5.
C23_SuspiciousIffThresholds ==
    checkSuspiciousActivity(otps, PhoneA, now, FALSE)
        <=> (IssuancesInLastHour(PhoneA) > 10 \/ ExhaustedInLastHour(PhoneA) > 3)

\* C24: in every reachable state and for every code, verifyOTP returns the
\* same result and leaves the same store whether checkSuspiciousActivity
\* answers for the store as it is (true when the phone is flagged) or its
\* count fails and it answers false; both are what the verification steps
\* alone yield.
C24_HeuristicAdvisoryOnly ==
    \A o \in HttpOtps :
        LET asked == verifyOTPMonitored(otps, users, nextUserId, PhoneA, o,
                                        NoName, now, FALSE)
            failed == verifyOTPMonitored(otps, users, nextUserId, PhoneA, o,
                                         NoName, now, TRUE)
            steps == verifyOTPOutcome(otps, users, nextUserId, PhoneA, o,
                                      NoName, now)
        IN  /\ asked.warned = checkSuspiciousActivity(otps, PhoneA, now, FALSE)
            /\ ~failed.warned
            /\ \A out \in {asked, failed} :
                  /\ out.result = steps.result
                  /\ out.otps = steps.otps
                  /\ out.users = steps.users
                  /\ out.nextUserId = steps.nextUserId

\* a verification has just succeeded for a phone the heuristic flags
C24_Witness ==
    /\ last.op = "verifyOTP" /\ last.success
    /\ checkSuspiciousActivity(otps, PhoneA, now, FALSE)
    /\ \E u \in users : u.user_id = last.userId /\ u.phone_number = PhoneA

\* the number a string of decimal digits denotes
RECURSIVE DigitsToNumber(_)
DigitsToNumber(str) ==
    IF str = <<>> THEN 0
    ELSE 10 * DigitsToNumber(SubSeq(str, 1, Len(str) - 1))
         + (CHOOSE d \in 0..9 : DigitChar[d + 1] = str[Len(str)])

\* generateOTP returns the code for some value of Math.random(): the draw is
\* determined by the number the code denotes
ProducibleCode(code) ==
    LET r == DigitsToNumber(code) - OtpRangeLow
    IN  r \in 0..(OtpRangeSpan - 1) /\ generateOTP(r) = code

\* codes of the zero-padded range 000000 to 999999, the ends included
PaddedCodeSamples ==
    {generateOtp(n, OtpLength) : n \in {0, 12345, 99999, 100000, 554321, 999999}}

\* C25: every code of a stored record, and the code of the smallest and of
\* the largest draw, is a string of exactly 6 decimal digits that passes
\* isValidOTP; and every code of the zero-padded range 000000 to 999999 can
\* be produced by the generator the Issuer calls.
C25_CodesCoverPaddedRange ==
    /\ \A rec \in otps : Len(CodeOf(rec)) = 6 /\ isValidOTP(CodeOf(rec))
    /\ \A r \in RandomDraws \cup {0, OtpRangeSpan - 1} :
          Len(generateOTP(r)) = 6 /\ isValidOTP(generateOTP(r))
    /\ \A code \in PaddedCodeSamples : isValidOTP(code) /\ ProducibleCode(code)

\* C26: cleanupExpiredOTPs deletes exactly the records with expires_at < now,
\* returns their count and leaves the identities as they are; no record that
\* verifyOTP could select is among them, so every verifyOTP call answers the
\* same before and after the cleanup; and the records cleanupOldOTPs deletes,
\* at whatever later time it runs, are all expired by then.
C26_CleanupOnlyExpired ==
    [][(last'.op = "cleanupExpiredOTPs" /\ now' = now) =>
          LET gone == otps \ otps'
          IN  /\ otps' \subseteq otps
              /\ \A r \in otps : r \in gone <=> r.expires_at < now
              /\ last'.otpId = Cardinality(gone)
              /\ users' = users
              /\ \A p \in PhoneInputs : ActiveOtps(p) \cap gone = {}
              /\ \A p \in PhoneInputs, o \in OtpInputs :
                    verifyOTPOutcome(otps', users', nextUserId', p, o,
                                     TestUser, now').result
                        = Verify(p, o).result
              /\ \A t \in {now, now + DayMinutes,
                           now + DayMinutes + TickMinutes} :
                    /\ oldOtps(otps, t) \subseteq expiredOtps(otps, t)
                    /\ \A p \in PhoneInputs :
                          findFirstOtp(otps, p, t) \notin oldOtps(otps, t)]_vars

\* a cleanup has just deleted a record and an active record is still there
C26_Witness ==
    /\ last.op = "cleanupExpiredOTPs"
    /\ last.otpId >= 1
    /\ Cardinality(otps) = nextOtpId - 1 - last.otpId
    /\ \E r \in otps : r.consumed_at = NULL /\ r.expires_at > now

\* C27: in every reachable state and for every phone and code, verifyOTP
\* adds and deletes no OTP record and changes at most one, the record its
\* lookup selected; it deletes no identity and creates or changes at most
\* one, which has the phone number of the call; every other record and
\* identity, of that phone or of another, stays as it is.
C27_VerifyTouchesOneOfEach ==
    \A p \in PhoneInputs, o \in OtpInputs :
        LET out == Verify(p, o)
            sel == findFirstOtp(otps, p, now)
            changedOtps == otps \ out.otps
            touchedUsers == (users \ out.users) \cup (out.users \ users)
        IN  /\ {r.otp_id : r \in out.otps} = {r.otp_id : r \in otps}
            /\ Cardinality(out.otps) = Cardinality(otps)
            /\ changedOtps \subseteq {sel}
            /\ \A r \in otps : r.phone_number # p => r \in out.otps
            /\ {u.user_id : u \in users} \subseteq {u.user_id : u \in out.users}
            /\ Cardinality({u.user_id : u \in touchedUsers}) <= 1
            /\ \A u \in touchedUsers : u.phone_number = p
            /\ \A u \in users : u.phone_number # p => u \in out.users

\* a wrong code has just been charged to the newer of two active records of
\* a phone and the older one is untouched
C27_Witness ==
    /\ last.op = "verifyOTP" /\ last.message = "Invalid OTP"
    /\ \E newer \in otps, older \in otps :
          /\ newer.phone_number = older.phone_number
          /\ older.otp_id < newer.otp_id
          /\ older.consumed_at = NULL /\ older.expires_at > now
          /\ newer.consumed_at = NULL /\ newer.expires_at > now
          /\ newer.attempts = 1 /\ older.attempts = 0

\* C28: under any interleaving of verifyOTP calls there is at most one
\* identity per phone number and identities are never removed; and a call
\* returns isNewUser = true only in a step before which the phone had no
\* identity and after which it has the one whose id the call returns, so
\* at most one call per phone ever returns isNewUser = true.
C28_OneIdentityPerPhone ==
    [][/\ \A u1 \in users', u2 \in users' :
             u1.phone_number = u2.phone_number => u1.user_id = u2.user_id
       /\ \A u \in users : \E v \in users' : /\ v.user_id = u.user_id
                                            /\ v.phone_number = u.phone_number
       /\ \A c \in Callers :
             (/\ calls'[c] # calls[c]
              /\ calls'[c].pc = "done"
              /\ calls'[c].result.isNewUser)
                 => /\ \A u \in users : u.phone_number # calls[c].phone
                    /\ \E u \in users' :
                          /\ u.phone_number = calls[c].phone
                          /\ u.user_id = calls'[c].result.userId]_vars

\* two overlapping calls both found no identity; one created it and
\* returned isNewUser = true, the other's create was refused
C28_Witness ==
    \E c \in Callers, d \in Callers :
        /\ calls[c].pc = "done" /\ calls[c].result.isNewUser
        /\ calls[d].pc = "done"
        /\ calls[d].result.message = "Failed to verify OTP"
        /\ calls[d].user.user_id = 0
        /\ Cardinality(users) = 1

\* C29: in every reachable state, a verifyOTP call with a malformed code, or
\* for a phone with no active record, or whose selected record has attempts
\* >= max_attempts, fails and leaves the otps table, the users table and the
\* id counter exactly as they were.
C29_EarlyFailureChangesNothing ==
    \A p \in PhoneInputs, o \in OtpInputs :
        LET out == Verify(p, o)
            sel == findFirstOtp(otps, p, now)
            malformed == ~(Len(o) = 6 /\ \A i \in 1..Len(o) : o[i] \in Digits)
            noRecord == ActiveOtps(p) = {}
            spent == ~noRecord /\ sel.attempts >= sel.max_attempts
        IN  (malformed \/ noRecord \/ spent) =>
                /\ ~out.result.success
                /\ out.result.message =
                       IF malformed THEN "Invalid OTP format"
                       ELSE IF noRecord THEN "Invalid or expired OTP"
                       ELSE "Maximum OTP attempts exceeded"
                /\ out.otps = otps
                /\ out.users = users
                /\ out.nextUserId = nextUserId

\* a malformed code has just been refused for a phone whose active record
\* had already been charged one attempt
C29_Witness ==
    /\ last.op = "verifyOTP" /\ last.message = "Invalid OTP format"
    /\ \E r \in otps : /\ r.consumed_at = NULL /\ r.expires_at > now
                       /\ r.attempts = 1
                       /\ IsLatestActive(r, r.phone_number)

\* C30: a response of the verify-otp or login route carries a token exactly
\* when its status is 200, which it is only after a verifyOTP call that
\* returned success, and the subject of the token is the userId that call
\* returned, the id of the identity of the request's phone; a request whose
\* verifyOTP call failed is answered 400 with the call's message and no
\* token.
C30_TokenOnlyOnSuccess ==
    resp.route \in {"verify-otp", "login"} =>
        /\ resp.status \in {200, 400}
        /\ resp.token # NoToken <=> resp.status = 200
        /\ resp.status = 200 =>
              /\ last.op = "verifyOTP" /\ last.success
              /\ resp.token.kind = "jwe"
              /\ resp.token.plaintext.payload.sub = NumToString(last.userId)
              /\ \E u \in users :
                    /\ u.user_id = last.userId
                    /\ u.phone_number =
                           resp.token.plaintext.payload.phone_number
        /\ (last.op = "verifyOTP" /\ ~last.success
                /\ resp.message # "Validation error") =>
              /\ resp.status = 400
              /\ resp.message = last.message
              /\ resp.token = NoToken
              /\ resp.payload = NoPayload

\* the login route has just answered an existing user with a token
C30_Witness ==
    /\ resp.route = "login" /\ resp.status = 200
    /\ resp.token.kind = "jwe"
    /\ last.success /\ ~last.isNewUser
    /\ resp.token.plaintext.payload.sub = NumToString(last.userId)

====
